---- MODULE Spec2Model ----
(***************************************************************************)
(* Model of the event-sourced loan core of rusty-library-ddd: the loan     *)
(* state machine (domain/loan.rs), the PostgreSQL event store and read     *)
(* model (adapters/postgres), the command handlers                         *)
(* (application/loan/loan_service.rs) and the overdue sweep                *)
(* (application/loan/overdue_detection.rs).                                *)
(*                                                                         *)
(* Time is counted in whole days.  Every await point of a handler is a     *)
(* step of its own, so that concurrent handlers interleave where the       *)
(* tokio tasks can.                                                        *)
(***************************************************************************)
EXTENDS Integers, Sequences, FiniteSets, TLC

\* ---------------------------------------------------------------- constants
LOAN_PERIOD_DAYS == 14
MAX_ACTIVE_LOANS == 5

\* ------------------------------------------------------------------- bounds
\* The clock advances in jumps of TickDays days up to day MaxNow.
TickDays == 15
MaxNow == 30

\* chrono's DateTime<Utc> is finer than a microsecond: the model tells
\* SubMicroSteps instants apart inside each microsecond, and a time is a
\* number of such instants.
SubMicroSteps == 2

\* Duration::days(n): a whole number of microseconds.
days(n) == n * SubMicroSteps

\* A TIMESTAMPTZ column keeps microseconds: what is written is read back
\* cut down to the microsecond.
timestamptz(t) == t - (t % SubMicroSteps)

Books == {"b1"}
Members == {"m1"}
Staff == {"s1"}

\* Option<T>
None == [some |-> FALSE]
Some(v) == [some |-> TRUE, value |-> v]

\* ------------------------------------------------------------ value objects
\* ExtensionCount::new
ExtensionCount_new == 0

\* ExtensionCount::can_extend
can_extend(c) == c < 1

\* increment returning the count it was given
increment_keeps(c) == IF c >= 1 THEN None ELSE Some(c)

\* ExtensionCount::increment: Ok(c + 1), or Err(LimitExceeded) as None
increment(c) == IF c >= 1 THEN None ELSE Some(c + 1)

\* TryFrom<u8> for ExtensionCount: Ok(value), or Err(LimitExceeded) as None
ExtensionCount_try_from(value) == IF value > 1 THEN None ELSE Some(value)

\* #[derive(Deserialize)] on the newtype ExtensionCount(u8): the number read
\* is the count, whatever it is
ExtensionCount_deserialize(value) == Some(value)

\* ------------------------------------------------------------------- events
BookLoaned(loan_id, book_id, member_id, loaned_at, due_date, loaned_by) ==
    [type |-> "BookLoaned", loan_id |-> loan_id, book_id |-> book_id,
     member_id |-> member_id, loaned_at |-> loaned_at, due_date |-> due_date,
     loaned_by |-> loaned_by]

LoanExtended(loan_id, old_due_date, new_due_date, extended_at, extension_count) ==
    [type |-> "LoanExtended", loan_id |-> loan_id, old_due_date |-> old_due_date,
     new_due_date |-> new_due_date, extended_at |-> extended_at,
     extension_count |-> extension_count]

BookReturned(loan_id, book_id, member_id, returned_at, was_overdue) ==
    [type |-> "BookReturned", loan_id |-> loan_id, book_id |-> book_id,
     member_id |-> member_id, returned_at |-> returned_at,
     was_overdue |-> was_overdue]

LoanBecameOverdue(loan_id, book_id, member_id, due_date, detected_at) ==
    [type |-> "LoanBecameOverdue", loan_id |-> loan_id, book_id |-> book_id,
     member_id |-> member_id, due_date |-> due_date, detected_at |-> detected_at]

\* -------------------------------------------------------------- loan states
\* Option<LoanV2>::None
NoLoan == [status |-> "None"]

\* A panic of apply_event (panic!, assert_eq!, expect): no loan state results
\* and the calling task unwinds.
Panic == [status |-> "Panic"]

LoanCore(loan_id, book_id, member_id, loaned_at, due_date, extension_count, created_by, created_at, updated_at) ==
    [loan_id |-> loan_id, book_id |-> book_id, member_id |-> member_id,
     loaned_at |-> loaned_at, due_date |-> due_date,
     extension_count |-> extension_count, created_by |-> created_by,
     created_at |-> created_at, updated_at |-> updated_at]

\* The core fields of a loan state of any variant.
CoreOf(loan) ==
    LoanCore(loan.loan_id, loan.book_id, loan.member_id, loan.loaned_at,
             loan.due_date, loan.extension_count, loan.created_by,
             loan.created_at, loan.updated_at)

ActiveLoan(core) == [status |-> "Active"] @@ core
OverdueLoan(core) == [status |-> "Overdue"] @@ core
ReturnedLoan(core, returned_at) ==
    [status |-> "Returned", returned_at |-> returned_at] @@ core

\* ------------------------------------------------------ pure domain functions
\* loan_book_v2 with the due date set to the day of the loan
loan_book_v2_no_period(loan_id, book_id, member_id, loaned_at, staff_id) ==
    <<ActiveLoan(LoanCore(loan_id, book_id, member_id, loaned_at, loaned_at,
                          ExtensionCount_new, staff_id, loaned_at, loaned_at)),
      BookLoaned(loan_id, book_id, member_id, loaned_at, loaned_at, staff_id)>>

\* loan_book_v2 with the fresh LoanId passed in: <<ActiveLoan, BookLoaned>>
loan_book_v2(loan_id, book_id, member_id, loaned_at, staff_id) ==
    LET due_date == loaned_at + days(LOAN_PERIOD_DAYS)
    IN  <<ActiveLoan(LoanCore(loan_id, book_id, member_id, loaned_at, due_date,
                              ExtensionCount_new, staff_id, loaned_at, loaned_at)),
          BookLoaned(loan_id, book_id, member_id, loaned_at, due_date, staff_id)>>

\* extend_loan_v2 without the limit: the count goes up from any value
extend_loan_v2_unlimited(loan, extended_at) ==
    LET old_due_date == loan.due_date
        new_due_date == old_due_date + days(LOAN_PERIOD_DAYS)
        new_extension_count == loan.extension_count + 1
    IN  Some(<<ActiveLoan([CoreOf(loan) EXCEPT
                             !.due_date = new_due_date,
                             !.extension_count = new_extension_count,
                             !.updated_at = extended_at]),
               LoanExtended(loan.loan_id, old_due_date, new_due_date,
                            extended_at, new_extension_count)>>)

\* extend_loan_v2 counting the new period from the time of the extension
extend_loan_v2_from_now(loan, extended_at) ==
    IF ~can_extend(loan.extension_count) THEN None
    ELSE LET old_due_date == loan.due_date
             new_due_date == extended_at + days(LOAN_PERIOD_DAYS)
             new_extension_count == increment(loan.extension_count)
         IN  IF ~new_extension_count.some THEN None
             ELSE Some(<<ActiveLoan([CoreOf(loan) EXCEPT
                                       !.due_date = new_due_date,
                                       !.extension_count = new_extension_count.value,
                                       !.updated_at = extended_at]),
                         LoanExtended(loan.loan_id, old_due_date, new_due_date,
                                      extended_at, new_extension_count.value)>>)

\* extend_loan_v2: Some(<<ActiveLoan, LoanExtended>>), or
\* Err(ExtensionLimitExceeded) as None
extend_loan_v2(loan, extended_at) ==
    IF ~can_extend(loan.extension_count) THEN None
    ELSE LET old_due_date == loan.due_date
             new_due_date == old_due_date + days(LOAN_PERIOD_DAYS)
             new_extension_count == increment(loan.extension_count)
         IN  IF ~new_extension_count.some THEN None
             ELSE Some(<<ActiveLoan([CoreOf(loan) EXCEPT
                                       !.due_date = new_due_date,
                                       !.extension_count = new_extension_count.value,
                                       !.updated_at = extended_at]),
                         LoanExtended(loan.loan_id, old_due_date, new_due_date,
                                      extended_at, new_extension_count.value)>>)

\* return_book_v2 counting a return at the due date itself as late
return_book_v2_at_due(loan, returned_at) ==
    CASE loan.status = "Active" ->
           Some(<<ReturnedLoan([CoreOf(loan) EXCEPT !.updated_at = returned_at],
                               returned_at),
                  BookReturned(loan.loan_id, loan.book_id, loan.member_id,
                               returned_at, returned_at >= loan.due_date)>>)
      [] loan.status = "Overdue" ->
           Some(<<ReturnedLoan([CoreOf(loan) EXCEPT !.updated_at = returned_at],
                               returned_at),
                  BookReturned(loan.loan_id, loan.book_id, loan.member_id,
                               returned_at, TRUE)>>)
      [] OTHER -> None

\* return_book_v2 taking a Returned loan back once more
return_book_v2_again(loan, returned_at) ==
    CASE loan.status = "Active" ->
           Some(<<ReturnedLoan([CoreOf(loan) EXCEPT !.updated_at = returned_at],
                               returned_at),
                  BookReturned(loan.loan_id, loan.book_id, loan.member_id,
                               returned_at, returned_at > loan.due_date)>>)
      [] OTHER ->
           Some(<<ReturnedLoan([CoreOf(loan) EXCEPT !.updated_at = returned_at],
                               returned_at),
                  BookReturned(loan.loan_id, loan.book_id, loan.member_id,
                               returned_at, TRUE)>>)

\* return_book_v2: Some(<<ReturnedLoan, BookReturned>>), or
\* Err(AlreadyReturned) as None
return_book_v2(loan, returned_at) ==
    CASE loan.status = "Active" ->
           Some(<<ReturnedLoan([CoreOf(loan) EXCEPT !.updated_at = returned_at],
                               returned_at),
                  BookReturned(loan.loan_id, loan.book_id, loan.member_id,
                               returned_at, returned_at > loan.due_date)>>)
      [] loan.status = "Overdue" ->
           Some(<<ReturnedLoan([CoreOf(loan) EXCEPT !.updated_at = returned_at],
                               returned_at),
                  BookReturned(loan.loan_id, loan.book_id, loan.member_id,
                               returned_at, TRUE)>>)
      [] OTHER -> None

\* is_overdue_v2 counting the due date itself as overdue
is_overdue_v2_at_due(loan, now) ==
    CASE loan.status = "Overdue" -> TRUE
      [] loan.status = "Active" -> now >= loan.due_date
      [] OTHER -> FALSE

\* is_overdue_v2
is_overdue_v2(loan, now) ==
    CASE loan.status = "Overdue" -> TRUE
      [] loan.status = "Active" -> now > loan.due_date
      [] OTHER -> FALSE

\* The arms of apply_event.  (None, BookLoaned):
apply_book_loaned(event) ==
    ActiveLoan(LoanCore(event.loan_id, event.book_id, event.member_id,
                        event.loaned_at, event.due_date, ExtensionCount_new,
                        event.loaned_by, event.loaned_at, event.loaned_at))

\* The LoanExtended arm restarting the loan at the time of the extension
apply_loan_extended_restarts(loan, event) ==
    IF loan.loan_id # event.loan_id THEN Panic
    ELSE LET extension_count == ExtensionCount_try_from(event.extension_count)
         IN  IF ~extension_count.some THEN Panic
             ELSE ActiveLoan([CoreOf(loan) EXCEPT
                                !.loaned_at = event.extended_at,
                                !.due_date = event.new_due_date,
                                !.extension_count = extension_count.value,
                                !.updated_at = event.extended_at])

\* (Some(Active), LoanExtended)
apply_loan_extended(loan, event) ==
    IF loan.loan_id # event.loan_id THEN Panic
    ELSE LET extension_count == ExtensionCount_try_from(event.extension_count)
         IN  IF ~extension_count.some THEN Panic
             ELSE ActiveLoan([CoreOf(loan) EXCEPT
                                !.due_date = event.new_due_date,
                                !.extension_count = extension_count.value,
                                !.updated_at = event.extended_at])

\* The BookReturned arms leaving updated_at as it was
apply_book_returned_keeps_updated_at(loan, event) ==
    IF loan.loan_id # event.loan_id THEN Panic
    ELSE ReturnedLoan(CoreOf(loan), event.returned_at)

\* (Some(Active), BookReturned) and (Some(Overdue), BookReturned)
apply_book_returned(loan, event) ==
    IF loan.loan_id # event.loan_id THEN Panic
    ELSE ReturnedLoan([CoreOf(loan) EXCEPT !.updated_at = event.returned_at],
                      event.returned_at)

\* (Some(Active), LoanBecameOverdue) with the loan left Active
apply_loan_became_overdue_stays_active(loan, event) ==
    IF loan.loan_id # event.loan_id THEN Panic
    ELSE ActiveLoan([CoreOf(loan) EXCEPT !.updated_at = event.detected_at])

\* (Some(Active), LoanBecameOverdue)
apply_loan_became_overdue(loan, event) ==
    IF loan.loan_id # event.loan_id THEN Panic
    ELSE OverdueLoan([CoreOf(loan) EXCEPT !.updated_at = event.detected_at])

\* apply_event with the arm (Some(_), BookLoaned) => panic! left out and
\* BookLoaned matched for any prior state
apply_event_reloan(loan, event) ==
    CASE event.type = "BookLoaned" -> apply_book_loaned(event)
      [] loan.status = "Active" /\ event.type = "LoanExtended" ->
           apply_loan_extended(loan, event)
      [] loan.status \in {"Active", "Overdue"} /\ event.type = "BookReturned" ->
           apply_book_returned(loan, event)
      [] loan.status = "Active" /\ event.type = "LoanBecameOverdue" ->
           apply_loan_became_overdue(loan, event)
      [] OTHER -> Panic

\* apply_event: the fold step; Panic where the code panics
apply_event(loan, event) ==
    CASE loan.status = "None" /\ event.type = "BookLoaned" ->
           apply_book_loaned(event)
      [] loan.status # "None" /\ event.type = "BookLoaned" -> Panic
      [] loan.status = "Active" /\ event.type = "LoanExtended" ->
           apply_loan_extended(loan, event)
      [] loan.status \in {"Active", "Overdue"} /\ event.type = "BookReturned" ->
           apply_book_returned(loan, event)
      [] loan.status = "Active" /\ event.type = "LoanBecameOverdue" ->
           apply_loan_became_overdue(loan, event)
      [] OTHER -> Panic

\* The fold taken from the last event back to the first
RECURSIVE fold_events_right(_, _)
fold_events_right(loan, events) ==
    IF events = <<>> THEN loan
    ELSE LET next == apply_event(loan, events[Len(events)])
         IN  IF next = Panic THEN Panic
             ELSE fold_events_right(next, SubSeq(events, 1, Len(events) - 1))

\* replay_events: left fold of apply_event from None; a panic of one step
\* unwinds the whole fold
RECURSIVE fold_events(_, _)
fold_events(loan, events) ==
    IF events = <<>> THEN loan
    ELSE LET next == apply_event(loan, Head(events))
         IN  IF next = Panic THEN Panic ELSE fold_events(next, Tail(events))

replay_events(events) == fold_events(NoLoan, events)

\* -------------------------------------------------------------- read model
\* LoanStatus::as_str of the variant of a loan state
status_label(loan) ==
    CASE loan.status = "Active" -> "active"
      [] loan.status = "Overdue" -> "overdue"
      [] loan.status = "Returned" -> "returned"

\* build_loan_view filling returned_at with the last update for every variant
build_loan_view_always_returned_at(loan) ==
    [loan_id |-> loan.loan_id, book_id |-> loan.book_id,
     member_id |-> loan.member_id, loaned_at |-> loan.loaned_at,
     due_date |-> loan.due_date,
     returned_at |-> Some(loan.updated_at),
     extension_count |-> loan.extension_count,
     status |-> status_label(loan),
     created_at |-> loan.created_at, updated_at |-> loan.updated_at]

\* build_loan_view: the complete state of a loan as a LoanView row
build_loan_view(loan) ==
    [loan_id |-> loan.loan_id, book_id |-> loan.book_id,
     member_id |-> loan.member_id, loaned_at |-> loan.loaned_at,
     due_date |-> loan.due_date,
     returned_at |-> IF loan.status = "Returned" THEN Some(loan.returned_at)
                     ELSE None,
     extension_count |-> loan.extension_count,
     status |-> status_label(loan),
     created_at |-> loan.created_at, updated_at |-> loan.updated_at]

\* build_loan_view_from_aggregate: the projector's own conversion of a loan
\* state to a LoanView, one arm per variant
build_loan_view_from_aggregate(loan) ==
    CASE loan.status = "Active" ->
           [loan_id |-> loan.loan_id, book_id |-> loan.book_id,
            member_id |-> loan.member_id, loaned_at |-> loan.loaned_at,
            due_date |-> loan.due_date, returned_at |-> None,
            extension_count |-> loan.extension_count, status |-> "active",
            created_at |-> loan.created_at, updated_at |-> loan.updated_at]
      [] loan.status = "Overdue" ->
           [loan_id |-> loan.loan_id, book_id |-> loan.book_id,
            member_id |-> loan.member_id, loaned_at |-> loan.loaned_at,
            due_date |-> loan.due_date, returned_at |-> None,
            extension_count |-> loan.extension_count, status |-> "overdue",
            created_at |-> loan.created_at, updated_at |-> loan.updated_at]
      [] loan.status = "Returned" ->
           [loan_id |-> loan.loan_id, book_id |-> loan.book_id,
            member_id |-> loan.member_id, loaned_at |-> loan.loaned_at,
            due_date |-> loan.due_date, returned_at |-> Some(loan.returned_at),
            extension_count |-> loan.extension_count, status |-> "returned",
            created_at |-> loan.created_at, updated_at |-> loan.updated_at]

\* The row the loans_view table holds for a LoanView bound to the INSERT:
\* its five timestamps go into TIMESTAMPTZ columns
stored_row(loan_view) ==
    [loan_view EXCEPT
        !.loaned_at = timestamptz(@), !.due_date = timestamptz(@),
        !.returned_at = IF @ = None THEN None ELSE Some(timestamptz(@.value)),
        !.created_at = timestamptz(@), !.updated_at = timestamptz(@)]

\* save whose conflict key is the member: the row replaces every row of the
\* same member
save_by_member(table, loan_view) ==
    LET old == {r \in table : r.member_id = loan_view.member_id}
    IN  (table \ old) \cup {stored_row(loan_view)}

\* save as INSERT ... ON CONFLICT (loan_id) DO NOTHING
save_do_nothing(table, loan_view) ==
    LET old == {r \in table : r.loan_id = loan_view.loan_id}
    IN  IF old = {} THEN table \cup {stored_row(loan_view)} ELSE table

\* save whose DO UPDATE adds the new extension count to the one in the row
save_accumulating(table, loan_view) ==
    LET old == {r \in table : r.loan_id = loan_view.loan_id}
        row == stored_row(loan_view)
    IN  IF old = {} THEN table \cup {row}
        ELSE (table \ old) \cup
             {[row EXCEPT !.created_at = r.created_at,
                          !.extension_count = r.extension_count + @] : r \in old}

\* LoanReadModel::save: INSERT ... ON CONFLICT (loan_id) DO UPDATE SET every
\* column except loan_id and created_at
save(table, loan_view) ==
    LET old == {r \in table : r.loan_id = loan_view.loan_id}
        row == stored_row(loan_view)
    IN  IF old = {} THEN table \cup {row}
        ELSE (table \ old) \cup
             {[row EXCEPT !.created_at = r.created_at] : r \in old}

\* project_loan_events: the outcome and the loans_view table it leaves.  An
\* empty history is Ok and writes nothing; a history whose replay panics
\* unwinds before the save.
project_loan_events(table, events) ==
    IF events = <<>> THEN [result |-> "Ok", table |-> table]
    ELSE LET loan == replay_events(events)
         IN  CASE loan = Panic -> [result |-> "Panic", table |-> table]
               [] loan = NoLoan -> [result |-> "Err", table |-> table]
               [] OTHER ->
                    [result |-> "Ok",
                     table |-> save(table, build_loan_view_from_aggregate(loan))]

\* LoanReadModel::get_active_loans_for_member
get_active_loans_for_member(table, member_id) ==
    {r \in table : r.member_id = member_id /\ r.status = "active"}

\* LoanReadModel::find_overdue_candidates, as the set of rows selected; the
\* ORDER BY due_date is applied where the sweep takes the next candidate
find_overdue_candidates(table, cutoff_date) ==
    {r \in table : r.status = "active" /\ r.due_date < cutoff_date}

\* LoanReadModel::get_by_id
get_by_id(table, loan_id) ==
    IF \E r \in table : r.loan_id = loan_id
    THEN Some(CHOOSE r \in table : r.loan_id = loan_id)
    ELSE None

\* -------------------------------------------------------------- event store
\* The rows of the events table of one aggregate
RowsOf(table, aggregate_id) == {r \in table : r.aggregate_id = aggregate_id}

\* SELECT COALESCE(MAX(aggregate_version), 0) FROM events WHERE aggregate_id = $1
current_version(table, aggregate_id) ==
    LET vs == {r.aggregate_version : r \in RowsOf(table, aggregate_id)}
    IN  IF vs = {} THEN 0 ELSE CHOOSE v \in vs : \A w \in vs : w <= v

\* The batch rows numbered from the current version instead of the next one
batch_rows_from_current(aggregate_id, version, batch) ==
    {[aggregate_id |-> aggregate_id, aggregate_version |-> version + i - 1,
      event |-> batch[i]] : i \in 1..Len(batch)}

\* The batch rows of append: event i gets version current_version + i + 1
batch_rows(aggregate_id, version, batch) ==
    {[aggregate_id |-> aggregate_id, aggregate_version |-> version + i,
      event |-> batch[i]] : i \in 1..Len(batch)}

\* The events table is unique on (aggregate_id, aggregate_version)
unique_violation(table, rows) ==
    \E r \in rows : \E s \in table :
        s.aggregate_id = r.aggregate_id /\ s.aggregate_version = r.aggregate_version

\* The rows in descending version order
RECURSIVE ordered_events_desc(_)
ordered_events_desc(rows) ==
    IF rows = {} THEN <<>>
    ELSE LET first == CHOOSE r \in rows :
                         \A s \in rows : r.aggregate_version >= s.aggregate_version
         IN  <<first.event>> \o ordered_events_desc(rows \ {first})

\* EventStore::load: SELECT event_data ... ORDER BY aggregate_version ASC
RECURSIVE ordered_events(_)
ordered_events(rows) ==
    IF rows = {} THEN <<>>
    ELSE LET first == CHOOSE r \in rows :
                         \A s \in rows : r.aggregate_version <= s.aggregate_version
         IN  <<first.event>> \o ordered_events(rows \ {first})

load(table, aggregate_id) == ordered_events(RowsOf(table, aggregate_id))

\* -------------------------------------------------------------------- state
VARIABLES
    events,        \* the events table: rows (aggregate_id, aggregate_version, event)
    loans_view,    \* the loans_view table: LoanView rows, keyed by loan_id
    now,           \* the wall clock (Utc::now)
    procs,         \* the tokio tasks running a handler, the sweep or an append
    next_loan_id,  \* the next value LoanId::new() returns
    ops_left,      \* how many more operations may start
    faults,        \* infrastructure faults injected so far
    fold_prev,     \* apply_event under test: the prior state,
    fold_event,    \*   the event applied to it
    fold_loan,     \*   and the state it returned
    run_start      \* sweep under observation: the tables and the clock as
                   \*   they were when the run started

vars == <<events, loans_view, now, procs, next_loan_id, ops_left, faults,
          fold_prev, fold_event, fold_loan, run_start>>

fold_vars == <<fold_prev, fold_event, fold_loan, run_start>>

Procs == {"p1", "p2"}

\* How many operations may start, and how many infrastructure faults may occur
MaxOps == 3
MaxFaults == 1

\* A task that runs nothing; result and value are what its last run returned.
Idle(result, value) == [pc |-> "idle", result |-> result, value |-> value]

\* A task inside an operation.  events, version and tx are the locals of
\* EventStore::append (tx: the rows inserted by the open transaction); loan is
\* the state whose view the handler saves after the append; sweep_now,
\* candidates and detected_count are the locals of detect_overdue_loans.
Task(pc, op, aggregate_id, batch, loan, sweep_now, candidates, detected_count) ==
    [pc |-> pc, op |-> op, aggregate_id |-> aggregate_id, events |-> batch,
     version |-> 0, tx |-> {}, loan |-> loan, sweep_now |-> sweep_now,
     candidates |-> candidates, detected_count |-> detected_count]

CanStart(p) == procs[p].pc = "idle" /\ ops_left > 0

Start(p, task) ==
    /\ procs' = [procs EXCEPT ![p] = task]
    /\ ops_left' = ops_left - 1

\* --------------------------------------------------------- EventStore::append
\* pool.begin() and the SELECT of the current version (READ COMMITTED: the
\* committed rows)
AppendRead(p) ==
    /\ procs[p].pc = "append_read"
    /\ procs' = [procs EXCEPT ![p].pc = "append_insert",
                              ![p].version =
                                  current_version(events, procs[p].aggregate_id)]
    /\ UNCHANGED <<events, loans_view, now, next_loan_id, ops_left, faults, fold_vars>>

\* What the task does once append has returned Ok
AfterAppend(task) ==
    IF task.op = "append" THEN Idle("Ok", 0)
    ELSE [task EXCEPT !.pc = "save", !.tx = {}]

\* What the task does once append has returned Err
AppendFailed(task) == Idle("EventStoreError", task.detected_count)

\* The rows a task's open transaction has inserted and not yet committed
OpenTx(task) == IF task.pc = "append_commit" THEN task.tx ELSE {}

\* The batch INSERT.  It waits while another open transaction holds a row
\* with the same key, and fails on a committed row with the same key.
AppendInsert(p) ==
    LET task == procs[p]
        rows == batch_rows(task.aggregate_id, task.version, task.events)
    IN  /\ task.pc = "append_insert"
        /\ ~\E q \in Procs \ {p} : unique_violation(OpenTx(procs[q]), rows)
        /\ procs' = [procs EXCEPT ![p] =
               IF unique_violation(events, rows) THEN AppendFailed(task)
               ELSE [task EXCEPT !.pc = "append_commit", !.tx = rows]]
        /\ UNCHANGED <<events, loans_view, now, next_loan_id, ops_left, faults,
                       fold_vars>>

\* A commit that replaces the rows the aggregate had
AppendCommit_replacing(p) ==
    /\ procs[p].pc = "append_commit"
    /\ events' = (events \ RowsOf(events, procs[p].aggregate_id)) \cup procs[p].tx
    /\ procs' = [procs EXCEPT ![p] = AfterAppend(procs[p])]
    /\ UNCHANGED <<loans_view, now, next_loan_id, ops_left, faults, fold_vars>>

\* tx.commit()
AppendCommit(p) ==
    /\ procs[p].pc = "append_commit"
    /\ events' = events \cup procs[p].tx
    /\ procs' = [procs EXCEPT ![p] = AfterAppend(procs[p])]
    /\ UNCHANGED <<loans_view, now, next_loan_id, ops_left, faults, fold_vars>>

\* append refusing an empty batch
EventStore_append_rejects_empty(p, aggregate_id, batch) ==
    /\ CanStart(p)
    /\ Start(p, IF batch = <<>> THEN Idle("EventStoreError", 0)
                ELSE Task("append_read", "append", aggregate_id, batch, NoLoan,
                          0, {}, 0))
    /\ UNCHANGED <<events, loans_view, now, next_loan_id, faults, fold_vars>>

\* EventStore::append called directly: Ok at once for an empty batch
EventStore_append(p, aggregate_id, batch) ==
    /\ CanStart(p)
    /\ Start(p, IF batch = <<>> THEN Idle("Ok", 0)
                ELSE Task("append_read", "append", aggregate_id, batch, NoLoan,
                          0, {}, 0))
    /\ UNCHANGED <<events, loans_view, now, next_loan_id, faults, fold_vars>>

\* ------------------------------------------------------------ load_loan
\* load_loan replaying every event of the store, whichever loan it belongs to
load_loan_whole_store(table, loan_id) == replay_events(ordered_events(table))

\* load_loan: Ok(loan), Err(LoanNotFound) as NoLoan, or a panic of the replay.
\* The events are loaded once (`let events = ...load(...).await?`) and the
\* replay is run on the loaded list.
load_loan(table, loan_id) ==
    CHOOSE loan \in {replay_events(loaded) : loaded \in {load(table, loan_id)}} : TRUE

\* loan_book with the loan limit checked after the event is stored and the
\* view row written
loan_book_limit_after_write(p, book_id, member_id, staff_id, member_exists, book_available, has_overdue) ==
    LET active_loans == get_active_loans_for_member(loans_view, member_id)
        created == loan_book_v2(next_loan_id, book_id, member_id, now, staff_id)
        over == Cardinality(active_loans) >= MAX_ACTIVE_LOANS
        rejected == ~member_exists \/ ~book_available \/ has_overdue \/ over
        written == member_exists /\ book_available /\ ~has_overdue /\ over
    IN  /\ CanStart(p)
        /\ Start(p,
             IF ~member_exists THEN Idle("MemberNotFound", 0)
             ELSE IF ~book_available THEN Idle("BookNotAvailable", 0)
             ELSE IF has_overdue THEN Idle("MemberHasOverdueLoan", 0)
             ELSE IF over THEN Idle("LoanLimitExceeded", 0)
             ELSE Task("append_read", "loan_book", next_loan_id, <<created[2]>>,
                       created[1], 0, {}, 0))
        /\ next_loan_id' = IF rejected /\ ~written THEN next_loan_id
                           ELSE next_loan_id + 1
        /\ events' = IF written
                     THEN events \cup batch_rows(next_loan_id, 0, <<created[2]>>)
                     ELSE events
        /\ loans_view' = IF written
                         THEN save(loans_view, build_loan_view(created[1]))
                         ELSE loans_view
        /\ UNCHANGED <<now, faults, fold_vars>>

\* -------------------------------------------------------------- loan_book
\* loan_book up to its append: the three collaborator answers are inputs, the
\* active loans are read from the view, the loan id is fresh.
loan_book(p, book_id, member_id, staff_id, member_exists, book_available, has_overdue) ==
    LET active_loans == get_active_loans_for_member(loans_view, member_id)
        created == loan_book_v2(next_loan_id, book_id, member_id, now, staff_id)
        rejected == ~member_exists \/ ~book_available \/ has_overdue
                    \/ Cardinality(active_loans) >= MAX_ACTIVE_LOANS
    IN  /\ CanStart(p)
        /\ Start(p,
             IF ~member_exists THEN Idle("MemberNotFound", 0)
             ELSE IF ~book_available THEN Idle("BookNotAvailable", 0)
             ELSE IF has_overdue THEN Idle("MemberHasOverdueLoan", 0)
             ELSE IF Cardinality(active_loans) >= MAX_ACTIVE_LOANS
                  THEN Idle("LoanLimitExceeded", 0)
             ELSE Task("append_read", "loan_book", next_loan_id, <<created[2]>>,
                       created[1], 0, {}, 0))
        /\ next_loan_id' = IF rejected THEN next_loan_id ELSE next_loan_id + 1
        /\ UNCHANGED <<events, loans_view, now, faults, fold_vars>>

\* ------------------------------------------------------------- extend_loan
\* extend_loan without the check of the variant: an Overdue or Returned loan
\* goes on to the domain function like an Active one
extend_loan_any_variant(p, loan_id) ==
    LET loan == load_loan(events, loan_id)
        extended == extend_loan_v2(loan, now)
    IN  /\ CanStart(p)
        /\ Start(p,
             CASE loan = Panic -> Idle("Panic", 0)
               [] loan = NoLoan -> Idle("LoanNotFound", 0)
               [] OTHER ->
                    IF ~extended.some THEN Idle("ExtensionLimitExceeded", 0)
                    ELSE Task("append_read", "extend_loan", loan_id,
                              <<extended.value[2]>>, extended.value[1], 0, {}, 0))
        /\ UNCHANGED <<events, loans_view, now, next_loan_id, faults, fold_vars>>

\* extend_loan up to its append
extend_loan(p, loan_id) ==
    LET loan == load_loan(events, loan_id)
        extended == extend_loan_v2(loan, now)
    IN  /\ CanStart(p)
        /\ Start(p,
             CASE loan = Panic -> Idle("Panic", 0)
               [] loan = NoLoan -> Idle("LoanNotFound", 0)
               [] loan.status = "Overdue" -> Idle("InvalidLoanState", 0)
               [] loan.status = "Returned" -> Idle("InvalidLoanState", 0)
               [] OTHER ->
                    IF ~extended.some THEN Idle("ExtensionLimitExceeded", 0)
                    ELSE Task("append_read", "extend_loan", loan_id,
                              <<extended.value[2]>>, extended.value[1], 0, {}, 0))
        /\ UNCHANGED <<events, loans_view, now, next_loan_id, faults, fold_vars>>

\* ------------------------------------------------------------- return_book
\* return_book answering Ok for a loan that has no events
return_book_unknown_ok(p, loan_id) ==
    LET loan == load_loan(events, loan_id)
        returned == return_book_v2(loan, now)
    IN  /\ CanStart(p)
        /\ Start(p,
             CASE loan = Panic -> Idle("Panic", 0)
               [] loan = NoLoan -> Idle("Ok", 0)
               [] OTHER ->
                    IF ~returned.some THEN Idle("AlreadyReturned", 0)
                    ELSE Task("append_read", "return_book", loan_id,
                              <<returned.value[2]>>, returned.value[1], 0, {}, 0))
        /\ UNCHANGED <<events, loans_view, now, next_loan_id, faults, fold_vars>>

\* return_book up to its append
return_book(p, loan_id) ==
    LET loan == load_loan(events, loan_id)
        returned == return_book_v2(loan, now)
    IN  /\ CanStart(p)
        /\ Start(p,
             CASE loan = Panic -> Idle("Panic", 0)
               [] loan = NoLoan -> Idle("LoanNotFound", 0)
               [] OTHER ->
                    IF ~returned.some THEN Idle("AlreadyReturned", 0)
                    ELSE Task("append_read", "return_book", loan_id,
                              <<returned.value[2]>>, returned.value[1], 0, {}, 0))
        /\ UNCHANGED <<events, loans_view, now, next_loan_id, faults, fold_vars>>

\* ---------------------------------------------------- detect_overdue_loans
\* The end of one iteration of the candidate loop: the next candidate, or
\* Ok(detected_count) after the last
NextCandidate(task) ==
    IF task.candidates = {} THEN Idle("Ok", task.detected_count)
    ELSE [task EXCEPT !.pc = "sweep_load", !.events = <<>>, !.version = 0,
                      !.tx = {}, !.loan = NoLoan, !.aggregate_id = 0]

\* now = Utc::now() and the candidate query
find_candidates(p) ==
    /\ CanStart(p)
    /\ Start(p, NextCandidate(Task("sweep_load", "detect_overdue_loans", 0, <<>>,
                                   NoLoan, now,
                                   find_overdue_candidates(loans_view, now), 0)))
    /\ UNCHANGED <<events, loans_view, now, next_loan_id, faults, fold_prev,
                   fold_event, fold_loan>>

\* The start of a run of detect_overdue_loans
detect_overdue_loans(p) == find_candidates(p) /\ UNCHANGED run_start

\* The loop body deciding from the view row alone: every candidate that has
\* events gets a LoanBecameOverdue appended, whatever its replayed state
SweepLoad_from_view(p) ==
    LET task == procs[p]
    IN  /\ task.pc = "sweep_load"
        /\ \E loan_view \in task.candidates :
             /\ \A c \in task.candidates : loan_view.due_date <= c.due_date
             /\ LET rest == [task EXCEPT !.candidates = @ \ {loan_view}]
                    loan == load_loan(events, loan_view.loan_id)
                    event == LoanBecameOverdue(loan.loan_id, loan.book_id,
                                               loan.member_id, loan.due_date,
                                               task.sweep_now)
                IN  procs' = [procs EXCEPT ![p] =
                      CASE loan = Panic -> Idle("Panic", task.detected_count)
                        [] loan = NoLoan -> NextCandidate(rest)
                        [] OTHER ->
                             [rest EXCEPT !.pc = "append_read",
                                          !.aggregate_id = loan.loan_id,
                                          !.events = <<event>>,
                                          !.loan = OverdueLoan(CoreOf(loan))]]
        /\ UNCHANGED <<events, loans_view, now, next_loan_id, ops_left, faults,
                       fold_vars>>

\* One candidate of the loop, taken in ascending due_date order: load, replay,
\* and for an Active overdue loan the LoanBecameOverdue event to append
SweepLoad(p) ==
    LET task == procs[p]
    IN  /\ task.pc = "sweep_load"
        /\ \E loan_view \in task.candidates :
             /\ \A c \in task.candidates : loan_view.due_date <= c.due_date
             /\ LET rest == [task EXCEPT !.candidates = @ \ {loan_view}]
                    loan == load_loan(events, loan_view.loan_id)
                    event == LoanBecameOverdue(loan.loan_id, loan.book_id,
                                               loan.member_id, loan.due_date,
                                               task.sweep_now)
                IN  procs' = [procs EXCEPT ![p] =
                      CASE loan = Panic -> Idle("Panic", task.detected_count)
                        [] loan = NoLoan -> NextCandidate(rest)
                        [] loan.status = "Active"
                             /\ is_overdue_v2(loan, task.sweep_now) ->
                             [rest EXCEPT !.pc = "append_read",
                                          !.aggregate_id = loan.loan_id,
                                          !.events = <<event>>,
                                          !.loan = apply_event(loan, event)]
                        [] OTHER -> NextCandidate(rest)]
        /\ UNCHANGED <<events, loans_view, now, next_loan_id, ops_left, faults,
                       fold_vars>>

\* ------------------------------------------------------- the view update
\* The step after the save with `detected_count += 1` left out
AfterSave_uncounted(task) ==
    IF task.op = "detect_overdue_loans" THEN NextCandidate(task)
    ELSE Idle("Ok", IF task.op = "loan_book" THEN task.aggregate_id ELSE 0)

\* loan_read_model.save(build_loan_view(loan)) after the append; the sweep
\* then counts the loan and goes on with the next candidate
AfterSave(task) ==
    IF task.op = "detect_overdue_loans"
    THEN NextCandidate([task EXCEPT !.detected_count = @ + 1])
    ELSE Idle("Ok", IF task.op = "loan_book" THEN task.aggregate_id ELSE 0)

\* The view update as a delta: an existing row gets the new status and
\* updated_at only
Save_status_only(p) ==
    /\ procs[p].pc = "save"
    /\ LET loan_view == build_loan_view(procs[p].loan)
           old == {r \in loans_view : r.loan_id = loan_view.loan_id}
       IN  loans_view' =
             IF old = {} THEN save(loans_view, loan_view)
             ELSE (loans_view \ old) \cup
                  {[r EXCEPT !.status = loan_view.status,
                             !.updated_at = timestamptz(loan_view.updated_at)] :
                     r \in old}
    /\ procs' = [procs EXCEPT ![p] = AfterSave(procs[p])]
    /\ UNCHANGED <<events, now, next_loan_id, ops_left, faults, fold_vars>>

Save(p) ==
    /\ procs[p].pc = "save"
    /\ loans_view' = save(loans_view, build_loan_view(procs[p].loan))
    /\ procs' = [procs EXCEPT ![p] = AfterSave(procs[p])]
    /\ UNCHANGED <<events, now, next_loan_id, ops_left, faults, fold_vars>>

\* ------------------------------------------------------------------ faults
\* An infrastructure fault at the await a task is at: the open transaction
\* is rolled back and the error returned with `?` ends the whole operation.
FaultResult(task) ==
    IF task.pc = "save" THEN "ReadModelError" ELSE "EventStoreError"

\* A fault that leaves one row of the open transaction stored
Fault_commits_part(p) ==
    /\ procs[p].pc \in {"append_read", "append_insert", "append_commit", "save",
                        "sweep_load"}
    /\ faults < MaxFaults
    /\ faults' = faults + 1
    /\ procs' = [procs EXCEPT ![p] =
                   Idle(FaultResult(procs[p]), procs[p].detected_count)]
    /\ events' = IF OpenTx(procs[p]) = {} THEN events
                 ELSE events \cup {CHOOSE r \in OpenTx(procs[p]) : TRUE}
    /\ UNCHANGED <<loans_view, now, next_loan_id, ops_left, fold_vars>>

Fault(p) ==
    /\ procs[p].pc \in {"append_read", "append_insert", "append_commit", "save",
                        "sweep_load"}
    /\ faults < MaxFaults
    /\ faults' = faults + 1
    /\ procs' = [procs EXCEPT ![p] =
                   Idle(FaultResult(procs[p]), procs[p].detected_count)]
    /\ UNCHANGED <<events, loans_view, now, next_loan_id, ops_left, fold_vars>>

\* ------------------------------------------------------------------- clock
Tick ==
    /\ now + days(TickDays) <= days(MaxNow)
    /\ now' = now + days(TickDays)
    /\ UNCHANGED <<events, loans_view, procs, next_loan_id, ops_left, faults,
                   fold_vars>>

\* ----------------------------------------------------------- specifications
\* No run of the sweep is under observation
NoRun == [started |-> FALSE]

InitFold ==
    /\ fold_prev = NoLoan
    /\ fold_event = NoLoan
    /\ fold_loan = NoLoan
    /\ run_start = NoRun

Init ==
    /\ events = {}
    /\ loans_view = {}
    /\ now = 0
    /\ procs = [p \in Procs |-> Idle("Ok", 0)]
    /\ next_loan_id = 1
    /\ ops_left = MaxOps
    /\ faults = 0
    /\ InitFold

\* The loan ids a client can name in a command: those of the view rows (the
\* query surface shows them, and loan_book returns its id after the row is
\* saved), and 0 for an id no loan has
CommandLoanIds == {r.loan_id : r \in loans_view} \cup {0}

\* POST /loans: a LoanBook command, loaned_at = Utc::now()
create_loan(p) ==
    \E b \in Books, m \in Members, s \in Staff, member_exists \in BOOLEAN,
       book_available \in BOOLEAN, has_overdue \in BOOLEAN :
        loan_book(p, b, m, s, member_exists, book_available, has_overdue)

\* POST /loans/:id/extend: an ExtendLoan command, extended_at = Utc::now()
extend_loan_handler(p) == \E loan_id \in CommandLoanIds : extend_loan(p, loan_id)

\* POST /loans/:id/return: a ReturnBook command, returned_at = Utc::now()
return_book_handler(p) == \E loan_id \in CommandLoanIds : return_book(p, loan_id)

Next ==
    \/ \E p \in Procs :
         \/ create_loan(p)
         \/ extend_loan_handler(p)
         \/ return_book_handler(p)
         \/ detect_overdue_loans(p)
         \/ SweepLoad(p)
         \/ AppendRead(p)
         \/ AppendInsert(p)
         \/ AppendCommit(p)
         \/ Save(p)
         \/ Fault(p)
    \/ Tick

Spec == Init /\ [][Next]_vars

\* A library where SeededLoans loan_book commands of one member have already
\* completed on day 0, one after another and without a fault.
SeededLoans == 4

SeedBook == CHOOSE b \in Books : TRUE
SeedMember == CHOOSE m \in Members : TRUE
SeedStaff == CHOOSE s \in Staff : TRUE

SeedLoan(loan_id) == loan_book_v2(loan_id, SeedBook, SeedMember, 0, SeedStaff)

RECURSIVE SeededView(_)
SeededView(n) ==
    IF n = 0 THEN {}
    ELSE save(SeededView(n - 1), build_loan_view(SeedLoan(n)[1]))

InitLimit ==
    /\ events = UNION {batch_rows(i, 0, <<SeedLoan(i)[2]>>) : i \in 1..SeededLoans}
    /\ loans_view = SeededView(SeededLoans)
    /\ now = 0
    /\ procs = [p \in Procs |-> Idle("Ok", 0)]
    /\ next_loan_id = SeededLoans + 1
    /\ ops_left = MaxOps
    /\ faults = 0
    /\ InitFold

\* The commands alone: no sweep, no clock, no infrastructure fault
NextLimit ==
    \E p \in Procs :
        \/ create_loan(p)
        \/ extend_loan_handler(p)
        \/ return_book_handler(p)
        \/ AppendRead(p)
        \/ AppendInsert(p)
        \/ AppendCommit(p)
        \/ Save(p)

SpecLimit == InitLimit /\ [][NextLimit]_vars

\* The event store alone: append called with any batch of up to MaxBatch
\* events on any of the aggregates, by concurrent tasks
MaxBatch == 2

StoreAggregates == {1, 2}

\* The batch of n events the k-th append call is given: events that differ
\* from each other and from those of every other call
StoreBatch(aggregate_id, n, k) ==
    [i \in 1..n |-> LoanBecameOverdue(aggregate_id, SeedBook, SeedMember, k, i)]

NextStore ==
    \E p \in Procs :
        \/ \E aggregate_id \in StoreAggregates, n \in 0..MaxBatch :
             EventStore_append(p, aggregate_id,
                               StoreBatch(aggregate_id, n, MaxOps - ops_left + 1))
        \/ AppendRead(p)
        \/ AppendInsert(p)
        \/ AppendCommit(p)
        \/ Fault(p)

SpecStore == Init /\ [][NextStore]_vars

\* The event store called by one task: no two append calls overlap
StoreProcs == {"p1"}

NextStoreSeq ==
    \E p \in StoreProcs :
        \/ \E aggregate_id \in StoreAggregates, n \in 0..MaxBatch :
             EventStore_append(p, aggregate_id,
                               StoreBatch(aggregate_id, n, MaxOps - ops_left + 1))
        \/ AppendRead(p)
        \/ AppendInsert(p)
        \/ AppendCommit(p)
        \/ Fault(p)

SpecStoreSeq == Init /\ [][NextStoreSeq]_vars

\* The sweep alone, run after run by one task, over a library whose loans
\* were lent on day 0 and whose view rows may lag behind the event log (a
\* command that failed between its append and its save leaves such a row).
SweepLoans == 2

SweepProcs == {"p1"}

\* The first day on which a loan lent on day 0 is past its due date
SweepDay == days(LOAN_PERIOD_DAYS + 1)

\* The histories a loan lent on day 0 can have on SweepDay
SweepHistories(loan_id) ==
    LET created == loan_book_v2(loan_id, SeedBook, SeedMember, 0, SeedStaff)
        extended == extend_loan_v2(created[1], 0).value
        returned == return_book_v2(created[1], 0).value
        overdue == LoanBecameOverdue(loan_id, SeedBook, SeedMember,
                                     created[1].due_date, SweepDay)
    IN  {<<created[2]>>, <<created[2], extended[2]>>,
         <<created[2], returned[2]>>, <<created[2], overdue>>}

\* A history and how many of its events the view row shows
SweepSeeds(loan_id) ==
    {[history |-> h, shown |-> k] : h \in SweepHistories(loan_id), k \in 1..2}

\* project_loan_events applied to the events the view row shows
SeedRow(seed) ==
    build_loan_view(replay_events(SubSeq(seed.history, 1, seed.shown)))

InitSweep ==
    /\ \E seeds \in [1..SweepLoans -> UNION {SweepSeeds(i) : i \in 1..SweepLoans}] :
         /\ \A i \in 1..SweepLoans :
              /\ seeds[i] \in SweepSeeds(i)
              /\ seeds[i].shown <= Len(seeds[i].history)
         /\ events = UNION {batch_rows(i, 0, seeds[i].history) : i \in 1..SweepLoans}
         /\ loans_view = {SeedRow(seeds[i]) : i \in 1..SweepLoans}
    /\ now = SweepDay
    /\ procs = [p \in Procs |-> Idle("Ok", 0)]
    /\ next_loan_id = SweepLoans + 1
    /\ ops_left = MaxOps
    /\ faults = 0
    /\ fold_prev = NoLoan
    /\ fold_event = NoLoan
    /\ fold_loan = NoLoan
    /\ run_start = NoRun

\* The start of a run, with the tables and the clock of that moment kept for
\* comparison; rerun: the run before it ended at this same clock value
detect_overdue_loans_observed(p) ==
    /\ find_candidates(p)
    /\ run_start' = [started |-> TRUE, events |-> events,
                     loans_view |-> loans_view, now |-> now,
                     rerun |-> run_start.started /\ run_start.now = now]

NextSweep ==
    \/ \E p \in SweepProcs :
         \/ detect_overdue_loans_observed(p)
         \/ SweepLoad(p)
         \/ AppendRead(p)
         \/ AppendInsert(p)
         \/ AppendCommit(p)
         \/ Save(p)
    \/ Tick

SpecSweep == InitSweep /\ [][NextSweep]_vars

\* The fold step alone: apply_event applied, from no prior state on, to any
\* event of FoldEvents, until it panics
FoldLoanIds == {1, 2}
FoldTimes == {0, days(LOAN_PERIOD_DAYS)}
FoldExtensionCounts == {0, 1, 2}

FoldEvents ==
    UNION {
      {BookLoaned(id, SeedBook, SeedMember, t, d, SeedStaff) :
          t \in FoldTimes, d \in FoldTimes}
      \cup {LoanExtended(id, days(LOAN_PERIOD_DAYS), d, t, c) :
          d \in FoldTimes, t \in FoldTimes, c \in FoldExtensionCounts}
      \cup {BookReturned(id, SeedBook, SeedMember, t, w) :
          t \in FoldTimes, w \in BOOLEAN}
      \cup {LoanBecameOverdue(id, SeedBook, SeedMember, d, t) :
          d \in FoldTimes, t \in FoldTimes}
      : id \in FoldLoanIds}

Fold ==
    /\ fold_loan # Panic
    /\ \E event \in FoldEvents :
         /\ fold_prev' = fold_loan
         /\ fold_event' = event
         /\ fold_loan' = apply_event(fold_loan, event)
    /\ UNCHANGED <<events, loans_view, now, procs, next_loan_id, ops_left, faults,
                   run_start>>

SpecFold == Init /\ [][Fold]_vars

\* The command functions of the domain alone, applied to any loan state they
\* produce: fold_prev is the state given, fold_event the event returned (or
\* the error) and fold_loan the state returned (the state given, on an error)
DomainBooks == Books \cup {"b2"}
DomainMembers == Members \cup {"m2"}
DomainTimes == {0, days(LOAN_PERIOD_DAYS), days(LOAN_PERIOD_DAYS + 1)}

\* Err(e) of a command function
Err(error) == [type |-> "Err", error |-> error]

\* loan_book_v2 on any input; the events table holds the history of the loan
\* the commands work on
Create ==
    /\ \E loan_id \in FoldLoanIds, book_id \in DomainBooks,
          member_id \in DomainMembers, loaned_at \in DomainTimes, staff_id \in Staff :
         LET created == loan_book_v2(loan_id, book_id, member_id, loaned_at, staff_id)
         IN  /\ fold_prev' = NoLoan
             /\ fold_loan' = created[1]
             /\ fold_event' = created[2]
             /\ events' = batch_rows(loan_id, 0, <<created[2]>>)
    /\ UNCHANGED <<loans_view, now, procs, next_loan_id, ops_left, faults, run_start>>

\* The events table after the event a command returned is stored
Stored(loan, event) ==
    events \cup batch_rows(loan.loan_id, current_version(events, loan.loan_id),
                           <<event>>)

\* extend_loan_v2 on an ActiveLoan
Extend ==
    /\ fold_loan.status = "Active"
    /\ \E extended_at \in DomainTimes :
         LET extended == extend_loan_v2(fold_loan, extended_at)
         IN  /\ fold_prev' = fold_loan
             /\ fold_loan' = IF extended.some THEN extended.value[1] ELSE fold_loan
             /\ fold_event' = IF extended.some THEN extended.value[2]
                              ELSE Err("ExtensionLimitExceeded")
             /\ events' = IF extended.some THEN Stored(fold_loan, extended.value[2])
                          ELSE events
    /\ UNCHANGED <<loans_view, now, procs, next_loan_id, ops_left, faults, run_start>>

\* return_book_v2 on a loan of any variant
Return ==
    /\ fold_loan.status \in {"Active", "Overdue", "Returned"}
    /\ \E returned_at \in DomainTimes :
         LET returned == return_book_v2(fold_loan, returned_at)
         IN  /\ fold_prev' = fold_loan
             /\ fold_loan' = IF returned.some THEN returned.value[1] ELSE fold_loan
             /\ fold_event' = IF returned.some THEN returned.value[2]
                              ELSE Err("AlreadyReturned")
             /\ events' = IF returned.some THEN Stored(fold_loan, returned.value[2])
                          ELSE events
    /\ UNCHANGED <<loans_view, now, procs, next_loan_id, ops_left, faults, run_start>>

\* The decision of the sweep on an Active loan that is_overdue_v2 at now
BecomeOverdue ==
    /\ fold_loan.status = "Active"
    /\ \E detected_at \in DomainTimes :
         LET event == LoanBecameOverdue(fold_loan.loan_id, fold_loan.book_id,
                                        fold_loan.member_id, fold_loan.due_date,
                                        detected_at)
         IN  /\ is_overdue_v2(fold_loan, detected_at)
             /\ fold_prev' = fold_loan
             /\ fold_loan' = apply_event(fold_loan, event)
             /\ fold_event' = event
             /\ events' = Stored(fold_loan, event)
    /\ UNCHANGED <<loans_view, now, procs, next_loan_id, ops_left, faults, run_start>>

\* An ExtensionCount made from a u8 by one of the two conversions of the type
Construct ==
    /\ \E value \in FoldExtensionCounts :
         /\ fold_prev' = [status |-> "u8", value |-> value]
         /\ \/ fold_event' = [type |-> "ExtensionCount", by |-> "try_from",
                               result |-> ExtensionCount_try_from(value)]
            \/ fold_event' = [type |-> "ExtensionCount", by |-> "deserialize",
                               result |-> ExtensionCount_deserialize(value)]
    /\ fold_loan' = fold_loan
    /\ UNCHANGED <<events, loans_view, now, procs, next_loan_id, ops_left, faults,
                   run_start>>

\* is_overdue_v2 asked of a loan of any variant
CheckOverdue ==
    /\ fold_loan.status \in {"Active", "Overdue", "Returned"}
    /\ \E asked_at \in DomainTimes :
         /\ fold_prev' = fold_loan
         /\ fold_loan' = fold_loan
         /\ fold_event' = [type |-> "IsOverdue", now |-> asked_at,
                           result |-> is_overdue_v2(fold_loan, asked_at)]
    /\ UNCHANGED <<events, loans_view, now, procs, next_loan_id, ops_left, faults,
                   run_start>>

NextDomain ==
    Create \/ Extend \/ Return \/ BecomeOverdue \/ CheckOverdue \/ Construct

SpecDomain == Init /\ [][NextDomain]_vars

\* -------------------------------------------------------------- sequential
\* The four operations called by one task, one after the other, with no
\* fault
SeqProcs == {"p1"}

NextSeq ==
    \/ \E p \in SeqProcs :
         \/ create_loan(p)
         \/ extend_loan_handler(p)
         \/ return_book_handler(p)
         \/ detect_overdue_loans(p)
         \/ SweepLoad(p)
         \/ AppendRead(p)
         \/ AppendInsert(p)
         \/ AppendCommit(p)
         \/ Save(p)
    \/ Tick

SpecSeq == Init /\ [][NextSeq]_vars

\* ---------------------------------------------------------------- liveness
\* No infrastructure fault, and sweeps that keep being run: a run of
\* detect_overdue_loans can start whenever a task is free, beyond the MaxOps
\* commands.  Every task that has started goes on to its next await, the
\* clock goes on, and a sweep is started again and again.
detect_overdue_loans_scheduled(p) ==
    /\ procs[p].pc = "idle"
    /\ procs' = [procs EXCEPT ![p] =
                   NextCandidate(Task("sweep_load", "detect_overdue_loans", 0, <<>>,
                                      NoLoan, now,
                                      find_overdue_candidates(loans_view, now), 0))]
    /\ UNCHANGED <<events, loans_view, now, next_loan_id, ops_left, faults, fold_vars>>

TaskStep(p) ==
    SweepLoad(p) \/ AppendRead(p) \/ AppendInsert(p) \/ AppendCommit(p) \/ Save(p)

\* The commands arrive on one task and the batch runs its sweeps one after
\* the other on a second task.
CommandTask == "p1"

SweepTask == "p2"

NextLive ==
    \/ create_loan(CommandTask)
    \/ extend_loan_handler(CommandTask)
    \/ return_book_handler(CommandTask)
    \/ detect_overdue_loans_scheduled(SweepTask)
    \/ \E p \in Procs : TaskStep(p)
    \/ Tick

SpecLive ==
    /\ Init
    /\ [][NextLive]_vars
    /\ \A p \in Procs : WF_vars(TaskStep(p))
    /\ WF_vars(Tick)
    /\ WF_vars(detect_overdue_loans_scheduled(SweepTask))

\* ------------------------------------------------------------------ replay
\* Histories of up to MaxReplay events of FoldEvents are stored one event at
\* a time under ReplayAggregate, and apply_event is applied to each event as
\* it is stored.
MaxReplay == 3
ReplayAggregate == 1

ReplayStep ==
    /\ fold_loan # Panic
    /\ current_version(events, ReplayAggregate) < MaxReplay
    /\ \E event \in FoldEvents :
         /\ events' = events \cup
                batch_rows(ReplayAggregate,
                           current_version(events, ReplayAggregate), <<event>>)
         /\ fold_prev' = fold_loan
         /\ fold_event' = event
         /\ fold_loan' = apply_event(fold_loan, event)
    /\ UNCHANGED <<loans_view, now, procs, next_loan_id, ops_left, faults, run_start>>

SpecReplay == Init /\ [][ReplayStep]_vars

\* --------------------------------------------------------------- projection
\* The projector at work on the histories of ProjectLoans loans.  The events
\* of a loan are the ones its command functions and the sweep produce, at
\* instants that fall on a microsecond and between two.
ProjectLoans == {1, 2}
ProjectTimes == {0, 1, days(LOAN_PERIOD_DAYS + 1)}

\* The events that can follow the history of a loan in state loan
next_events(loan, loan_id) ==
    UNION {
      (IF loan = NoLoan
       THEN {loan_book_v2(loan_id, SeedBook, SeedMember, t, SeedStaff)[2]}
       ELSE {})
      \cup (IF loan.status = "Active" /\ extend_loan_v2(loan, t).some
            THEN {extend_loan_v2(loan, t).value[2]}
            ELSE {})
      \cup (IF loan.status \in {"Active", "Overdue"}
            THEN {return_book_v2(loan, t).value[2]}
            ELSE {})
      \cup (IF loan.status = "Active" /\ is_overdue_v2(loan, t)
            THEN {LoanBecameOverdue(loan.loan_id, loan.book_id, loan.member_id,
                                    loan.due_date, t)}
            ELSE {})
      : t \in ProjectTimes}

\* One more event of a loan is stored
StoreEvent(a) ==
    /\ ops_left > 0
    /\ \E event \in next_events(load_loan(events, a), a) :
         /\ events' = events \cup
                batch_rows(a, current_version(events, a), <<event>>)
         /\ fold_event' = event
    /\ ops_left' = ops_left - 1
    /\ UNCHANGED <<loans_view, now, procs, next_loan_id, faults, fold_prev,
                   fold_loan, run_start>>

\* project_loan_events on the complete history of a loan.  fold_prev keeps
\* the table as it was before the call, fold_event the call and whether it
\* repeats the call before it.
Project(a) ==
    LET history == load(events, a)
        projected == project_loan_events(loans_view, history)
        again == /\ fold_event # NoLoan
                 /\ fold_event.type = "Projected"
                 /\ fold_event.loan_id = a
                 /\ fold_event.history = history
    IN  /\ loans_view' = projected.table
        /\ fold_prev' = [status |-> "View", rows |-> loans_view]
        /\ fold_event' = [type |-> "Projected", loan_id |-> a,
                          history |-> history, result |-> projected.result,
                          again |-> again]
        /\ UNCHANGED <<events, now, procs, next_loan_id, ops_left, faults,
                       fold_loan, run_start>>

\* A replay of the stored history of a loan, kept in run_start
Replay(a) ==
    /\ run_start' = [started |-> TRUE, loan_id |-> a,
                     history |-> load(events, a),
                     loan |-> load_loan(events, a)]
    /\ UNCHANGED <<events, loans_view, now, procs, next_loan_id, ops_left, faults,
                   fold_prev, fold_event, fold_loan>>

NextProject ==
    \E a \in ProjectLoans : StoreEvent(a) \/ Project(a) \/ Replay(a)

SpecProject == Init /\ [][NextProject]_vars

\* ------------------------------------------------------------------ claims
AggregateIds == {r.aggregate_id : r \in events}

Log(aggregate_id) == load(events, aggregate_id)

Versions(aggregate_id) ==
    {r.aggregate_version : r \in RowsOf(events, aggregate_id)}

CountOf(log, type) == Cardinality({i \in 1..Len(log) : log[i].type = type})

Quiescent == \A p \in Procs : procs[p].pc = "idle"

InAppend(p) == procs[p].pc \in {"append_insert", "append_commit"}

\* C1: two concurrent appends on one aggregate never compute the same next
\* version, both batches are stored (no append fails unless a fault was
\* injected), and the versions of every aggregate are exactly 1..n.
C1_ConcurrentAppendsGaplessNoLoss ==
    /\ \A p \in Procs : \A q \in Procs \ {p} :
         (InAppend(p) /\ InAppend(q)
            /\ procs[p].aggregate_id = procs[q].aggregate_id)
         => procs[p].version # procs[q].version
    /\ faults = 0 => \A p \in Procs : procs[p].pc = "idle" => procs[p].result = "Ok"
    /\ \A a \in AggregateIds :
         /\ Versions(a) = 1..Cardinality(RowsOf(events, a))

\* C2: the stored history of every loan is always a valid transition
\* sequence: replay_events over load(loan_id) meets no pair outside the table.
C2_HistoryAlwaysValid ==
    \A a \in AggregateIds : replay_events(Log(a)) # Panic

\* C3: the log of each loan holds at most one LoanBecameOverdue event.
C3_AtMostOneBecameOverdue ==
    \A a \in AggregateIds : CountOf(Log(a), "LoanBecameOverdue") <= 1

\* C4: Returned is absorbing: a BookReturned event is always the last event
\* of its loan's log.
C4_ReturnedIsLast ==
    \A a \in AggregateIds :
        \A i \in 1..Len(Log(a)) :
            Log(a)[i].type = "BookReturned" => i = Len(Log(a))

\* C5: the log of each loan holds at most one LoanExtended event.
C5_AtMostOneExtension ==
    \A a \in AggregateIds : CountOf(Log(a), "LoanExtended") <= 1

\* The transition table of the loan state machine: the state a (prior state,
\* event) pair leads to, "Panic" for a pair outside the table
TableTarget(status, type) ==
    CASE status = "None" /\ type = "BookLoaned" -> "Active"
      [] status = "Active" /\ type = "LoanExtended" -> "Active"
      [] status = "Active" /\ type = "LoanBecameOverdue" -> "Overdue"
      [] status = "Active" /\ type = "BookReturned" -> "Returned"
      [] status = "Overdue" /\ type = "BookReturned" -> "Returned"
      [] OTHER -> "Panic"

Folded == fold_event # NoLoan

\* The event names the loan it is applied to and carries a valid extension
\* count
WellFormedFor(loan, event) ==
    /\ loan.status # "None" => event.loan_id = loan.loan_id
    /\ event.type = "LoanExtended" => event.extension_count <= 1

\* C6 as claimed: apply_event accepts exactly the pairs of the transition
\* table, with the table's target state, and rejects every other pair.
C6_AcceptsExactlyTheTable ==
    Folded => fold_loan.status = TableTarget(fold_prev.status, fold_event.type)

\* C6 as amended: apply_event accepts exactly the pairs of the transition
\* table whose event names the loan it is applied to and, for LoanExtended,
\* carries an extension count of at most 1; every other pair is rejected and
\* yields no loan state.
C6_AcceptsTheTableForOwnEvents ==
    Folded =>
        fold_loan.status =
            IF WellFormedFor(fold_prev, fold_event)
            THEN TableTarget(fold_prev.status, fold_event.type)
            ELSE "Panic"

C6_Witness ==
    /\ fold_prev.status = "Overdue"
    /\ fold_event.type = "BookReturned"
    /\ fold_loan.status = "Returned"

\* A loan's replayed state is Active and past due at the sweep's now
StillDue(task, loan_view) ==
    LET loan == load_loan(events, loan_view.loan_id)
    IN  loan.status = "Active" /\ is_overdue_v2(loan, task.sweep_now)

SweepFails(p) ==
    /\ procs[p].pc # "idle"
    /\ procs[p].op = "detect_overdue_loans"
    /\ procs'[p].pc = "idle"
    /\ procs'[p].result # "Ok"

\* C7: a failure while the sweep handles one candidate aborts only that
\* candidate: when a run fails, no other candidate that is Active and overdue
\* is left unhandled.
C7_SweepFailureIsPerLoan ==
    [][\A p \in Procs :
         SweepFails(p) =>
            Cardinality({c \in procs[p].candidates : StillDue(procs[p], c)})
               <= IF procs[p].pc = "sweep_load" THEN 1 ELSE 0]_vars

LoanBookResults ==
    {"MemberNotFound", "BookNotAvailable", "MemberHasOverdueLoan",
     "LoanLimitExceeded"}

ActiveCount(member_id) ==
    Cardinality(get_active_loans_for_member(loans_view, member_id))

\* C8: no member ever has more than 5 loans with status active, and a
\* loan_book of a member with 5 active loans in the read model fails with
\* LoanLimitExceeded (when no earlier check rejects it).
C8_LoanLimitHolds ==
    [][/\ \A m \in Members : ActiveCount(m)' <= MAX_ACTIVE_LOANS
       /\ \A p \in Procs :
            (/\ procs'[p] # procs[p]
             /\ procs'[p].pc = "append_read"
             /\ procs'[p].op = "loan_book")
            => ActiveCount(procs'[p].loan.member_id) < MAX_ACTIVE_LOANS]_vars

BusinessRejections ==
    LoanBookResults \cup {"InvalidLoanState", "ExtensionLimitExceeded",
                          "AlreadyReturned"}

Rejected(p) ==
    /\ ops_left' < ops_left
    /\ procs'[p].pc = "idle"
    /\ procs'[p].result \in BusinessRejections

\* C9: a command rejected for a business rule has no side effect: the events
\* table and the view table are the same after the rejection as before.
C9_RejectionHasNoSideEffect ==
    [][(\E p \in Procs : Rejected(p))
         => (events' = events /\ loans_view' = loans_view)]_vars

C9_Witness ==
    /\ procs["p1"] = Idle("LoanLimitExceeded", 0)
    /\ procs["p2"] = Idle("MemberNotFound", 0)
    /\ Cardinality(AggregateIds) = MAX_ACTIVE_LOANS

\* The view row of a loan shows the state its event history replays to
ViewShows(loan) ==
    LET row == get_by_id(loans_view, loan.loan_id)
        view == build_loan_view(loan)
    IN  /\ row.some
        /\ row.value.status = view.status
        /\ row.value.due_date = view.due_date
        /\ row.value.extension_count = view.extension_count
        /\ row.value.returned_at = view.returned_at

\* C10: once every started command and sweep has completed and no
\* infrastructure fault occurred, the view row of each loan equals the
\* projection of the loan's complete (valid) event history.
C10_ViewMatchesLogWhenQuiet ==
    (Quiescent /\ faults = 0 /\ \A p \in Procs : procs[p].result # "EventStoreError")
    => \A a \in AggregateIds :
          LET loan == replay_events(Log(a))
          IN  loan # Panic => ViewShows(loan)

\* ------------------------------------------------------- claims on the sweep
\* The run under observation has returned
RunDone == run_start.started /\ \A p \in SweepProcs : procs[p].pc = "idle"

\* The view row of a loan as the run found it
RowAtStart(loan_id) == get_by_id(run_start.loans_view, loan_id)

\* The loan is a candidate of the run: its row says active and due before now
Candidate(loan_id) ==
    /\ RowAtStart(loan_id).some
    /\ RowAtStart(loan_id).value.status = "active"
    /\ RowAtStart(loan_id).value.due_date < run_start.now

\* The replayed state of a loan as the run found it
LoanAtStart(loan_id) == load_loan(run_start.events, loan_id)

\* The replayed state is Active and past due at the run's now
ActiveAndDue(loan_id) ==
    /\ LoanAtStart(loan_id).status = "Active"
    /\ run_start.now > LoanAtStart(loan_id).due_date

\* Neither the log nor the view row of the loan differs from the run's start
Untouched(loan_id) ==
    /\ load(events, loan_id) = load(run_start.events, loan_id)
    /\ get_by_id(loans_view, loan_id) = RowAtStart(loan_id)

\* The run appended exactly one LoanBecameOverdue to the loan's log and the
\* view row shows the loan as overdue
TransitionedByRun(loan_id) ==
    LET loan == LoanAtStart(loan_id)
    IN  /\ load(events, loan_id) =
              Append(load(run_start.events, loan_id),
                     LoanBecameOverdue(loan_id, loan.book_id, loan.member_id,
                                       loan.due_date, run_start.now))
        /\ get_by_id(loans_view, loan_id).some
        /\ get_by_id(loans_view, loan_id).value.status = "overdue"

SweptLoans == 1..SweepLoans

\* C11: the sweep never decides from the read model alone: a candidate (view
\* row active, due before now) whose replayed history is Overdue, Returned,
\* or Active and not past due gets no event and no view write at any moment
\* of the run, and the count the run returns does not include it.
C11_SweepDecidesFromTheLog ==
    run_start.started =>
        /\ \A a \in SweptLoans :
             (Candidate(a) /\ ~ActiveAndDue(a)) => Untouched(a)
        /\ \A p \in SweepProcs :
             procs[p].pc = "idle" =>
                procs[p].value <=
                    Cardinality({a \in SweptLoans : Candidate(a) /\ ActiveAndDue(a)})

C11_Witness ==
    /\ RunDone
    /\ \E a \in SweptLoans :
         Candidate(a) /\ LoanAtStart(a).status = "Returned" /\ Untouched(a)
    /\ \E a \in SweptLoans : Candidate(a) /\ TransitionedByRun(a)

\* C12: a run without faults and without a concurrent operation transitions
\* exactly the candidates whose replayed state is Active and past due: each
\* gets exactly one LoanBecameOverdue and the view status overdue, every
\* other loan is left as it was, and the run returns their number.
C12_SweepTransitionsExactlyTheDue ==
    RunDone =>
        /\ \A a \in SweptLoans :
             IF Candidate(a) /\ ActiveAndDue(a)
             THEN TransitionedByRun(a) ELSE Untouched(a)
        /\ \A p \in SweepProcs :
             /\ procs[p].result = "Ok"
             /\ procs[p].value =
                  Cardinality({a \in SweptLoans : Candidate(a) /\ ActiveAndDue(a)})

C12_Witness ==
    /\ RunDone
    /\ \A a \in SweptLoans : Candidate(a) /\ TransitionedByRun(a)
    /\ \A p \in SweepProcs : procs[p].value = SweepLoans

\* C13: a run made directly after a completed run (no command in between,
\* the clock at the same value) returns 0 and leaves every event log and
\* every view row as the first run left them.
C13_SecondRunChangesNothing ==
    (RunDone /\ run_start.rerun) =>
        /\ \A p \in SweepProcs : procs[p].result = "Ok" /\ procs[p].value = 0
        /\ events = run_start.events
        /\ loans_view = run_start.loans_view

C13_Witness ==
    /\ RunDone
    /\ run_start.rerun
    /\ run_start.now > SweepDay
    /\ \E r \in events :
         /\ r.event.type = "LoanBecameOverdue"
         /\ r.aggregate_version = 2
         /\ r.event.detected_at = run_start.now
         /\ get_by_id(loans_view, r.aggregate_id).value.status = "overdue"

\* ------------------------------------------------- claims on the event store
\* The step is the commit of task p's append
Commits(p) ==
    /\ procs[p].pc = "append_commit"
    /\ procs'[p].pc = "idle"
    /\ procs'[p].result = "Ok"

\* The batches stored so far, by the tag StoreBatch gave them
StoredBatches == {r.event.due_date : r \in events}

\* C14: after any sequence of append calls that do not overlap, the versions
\* of each aggregate are exactly 1..n, without gap or duplicate, and a batch
\* of N events appended at current maximum version v (0 without events) gets
\* the versions v+1..v+N in batch order.
C14_SequentialVersionsGapless ==
    [][/\ \A a \in StoreAggregates :
            {r.aggregate_version : r \in RowsOf(events', a)}
                = 1..Cardinality(RowsOf(events', a))
       /\ \A p \in StoreProcs :
            Commits(p) =>
               LET a == procs[p].aggregate_id
                   v == current_version(events, a)
                   batch == procs[p].events
               IN  /\ events' \ events =
                        {[aggregate_id |-> a, aggregate_version |-> v + i,
                          event |-> batch[i]] : i \in 1..Len(batch)}
                   /\ Cardinality(events' \ events) = Len(batch)]_vars

C14_Witness ==
    /\ \E a \in StoreAggregates :
         /\ Cardinality(RowsOf(events, a)) = MaxBatch + 1
         /\ Cardinality({r.event.due_date : r \in RowsOf(events, a)}) = 2
    /\ \A p \in Procs : procs[p].pc = "idle"

\* C15: load returns the events of the aggregate in ascending version order,
\* which is the concatenation, in append order, of the batches appended to
\* it, and the empty sequence for an aggregate nothing was appended to.
C15_LoadIsConcatenationOfBatches ==
    [][/\ events = {} => \A a \in StoreAggregates : load(events, a) = <<>>
       /\ \A a \in StoreAggregates :
            \/ load(events', a) = load(events, a)
            \/ \E p \in StoreProcs :
                 /\ Commits(p)
                 /\ procs[p].aggregate_id = a
                 /\ load(events', a) = load(events, a) \o procs[p].events
       /\ \A p \in StoreProcs :
            Commits(p) =>
               load(events', procs[p].aggregate_id)
                  = load(events, procs[p].aggregate_id) \o procs[p].events]_vars

C15_Witness ==
    /\ load(events, 1) = StoreBatch(1, MaxBatch, 1) \o StoreBatch(1, 1, 3)
    /\ load(events, 2) = StoreBatch(2, MaxBatch, 2)

\* C16: append is all-or-nothing: the stored rows change only by the commit
\* of a whole batch, and an append that is interrupted or fails before its
\* commit leaves none of its rows, so load never shows part of a batch.
C16_AppendAllOrNothing ==
    [][/\ events' # events =>
            \E p \in Procs :
               /\ Commits(p)
               /\ events' \ events = procs[p].tx
               /\ Cardinality(procs[p].tx) = Len(procs[p].events)
               /\ events \subseteq events'
       /\ \A p \in Procs :
            (procs[p].pc # "idle" /\ procs'[p].pc = "idle"
               /\ procs'[p].result # "Ok")
            => events' = events]_vars

C16_Witness ==
    /\ faults = 1
    /\ procs["p1"] = Idle("EventStoreError", 0)
    /\ procs["p2"].pc = "idle"
    /\ ops_left = MaxOps - 2
    /\ load(events, 1) = StoreBatch(1, MaxBatch, 1)
    /\ load(events, 2) = <<>>

IsPrefix(s, t) == Len(s) <= Len(t) /\ SubSeq(t, 1, Len(s)) = s

\* C17: stored events are immutable: what load returns for an aggregate is
\* a prefix of what it returns at any later time, whatever runs in between.
C17_LogOnlyGrows ==
    [][\A a \in AggregateIds : IsPrefix(load(events, a), load(events', a))]_vars

C17_Witness ==
    \E a \in AggregateIds :
        /\ Len(Log(a)) = 3
        /\ Log(a)[2].type = "LoanExtended"
        /\ Log(a)[3].type = "BookReturned"

\* C18: append with an empty event list returns Ok at once, adds no event
\* and leaves the maximum version of every aggregate as it was.
C18_EmptyAppendIsNoOp ==
    [][\A p \in Procs :
         (ops_left' < ops_left /\ procs'[p] # procs[p])
         => \/ procs'[p].pc = "append_read" /\ procs'[p].events # <<>>
            \/ /\ procs'[p] = Idle("Ok", 0)
               /\ events' = events
               /\ \A a \in StoreAggregates :
                    current_version(events', a) = current_version(events, a)]_vars

C18_Witness ==
    /\ StoredBatches = {1}
    /\ ops_left = MaxOps - 2
    /\ faults = 0
    /\ \A p \in Procs : procs[p] = Idle("Ok", 0)

\* ------------------------------------------ claims on the command functions
\* C19: loan_book succeeds for every input and returns an Active loan with
\* extension count 0 and due date = loaned_at + 14 days, and a BookLoaned
\* event with the loan's id, book, member, loaned_at, due date and staff.
C19_CreateGivesActiveLoanDueIn14Days ==
    (fold_prev = NoLoan /\ fold_event # NoLoan) =>
        /\ fold_loan.status = "Active"
        /\ fold_loan.extension_count = 0
        /\ fold_loan.due_date = fold_loan.loaned_at + days(14)
        /\ fold_event = [type |-> "BookLoaned", loan_id |-> fold_loan.loan_id,
                         book_id |-> fold_loan.book_id,
                         member_id |-> fold_loan.member_id,
                         loaned_at |-> fold_loan.loaned_at,
                         due_date |-> fold_loan.due_date,
                         loaned_by |-> fold_loan.created_by]

C19_Witness ==
    /\ fold_loan.status = "Active"
    /\ fold_prev = NoLoan
    /\ fold_event.type = "BookLoaned"
    /\ fold_loan.loaned_at = days(LOAN_PERIOD_DAYS + 1)
    /\ fold_loan.due_date = days(2 * LOAN_PERIOD_DAYS + 1)
    /\ fold_loan.book_id = "b2"

\* extend was called on the Active loan fold_prev
ExtendCalled ==
    /\ fold_prev.status = "Active"
    /\ \/ fold_event.type = "LoanExtended"
       \/ fold_event = Err("ExtensionLimitExceeded")

\* C20: extend on an Active loan with extension count 0 succeeds: the loan
\* returned is Active with due date = previous due date + 14 days and
\* extension count 1, and the LoanExtended event carries the previous due
\* date, the new due date and extension_count 1.
C20_FirstExtendAdds14Days ==
    (ExtendCalled /\ fold_prev.extension_count = 0) =>
        /\ fold_loan.status = "Active"
        /\ fold_loan.due_date = fold_prev.due_date + days(14)
        /\ fold_loan.extension_count = 1
        /\ fold_event.type = "LoanExtended"
        /\ fold_event.loan_id = fold_prev.loan_id
        /\ fold_event.old_due_date = fold_prev.due_date
        /\ fold_event.new_due_date = fold_loan.due_date
        /\ fold_event.extension_count = 1

C20_Witness ==
    /\ ExtendCalled
    /\ fold_prev.extension_count = 0
    /\ fold_prev.due_date = days(LOAN_PERIOD_DAYS)
    /\ fold_loan.due_date = days(2 * LOAN_PERIOD_DAYS)
    /\ fold_event.extended_at = days(LOAN_PERIOD_DAYS)

\* C21: extend on an Active loan whose extension count is already 1 fails
\* with ExtensionLimitExceeded, produces no event, and leaves every field of
\* the loan unchanged.
C21_SecondExtendFails ==
    (ExtendCalled /\ fold_prev.extension_count = 1) =>
        /\ fold_event = Err("ExtensionLimitExceeded")
        /\ fold_loan = fold_prev

C21_Witness ==
    /\ ExtendCalled
    /\ fold_prev.extension_count = 1
    /\ fold_prev.due_date = days(2 * LOAN_PERIOD_DAYS)
    /\ fold_event = Err("ExtensionLimitExceeded")

\* return_book was called on the loan fold_prev
ReturnCalled ==
    /\ fold_prev.status \in {"Active", "Overdue", "Returned"}
    /\ \/ fold_event.type = "BookReturned"
       \/ fold_event = Err("AlreadyReturned")

\* C23: return_book on an Active or Overdue loan at time t succeeds: the loan
\* returned is Returned with returned_at = t, and the BookReturned event has
\* was_overdue = (the loan was Overdue) or (t > due date).
C23_ReturnSetsWasOverdue ==
    (ReturnCalled /\ fold_prev.status \in {"Active", "Overdue"}) =>
        /\ fold_event.type = "BookReturned"
        /\ fold_loan.status = "Returned"
        /\ fold_loan.returned_at = fold_event.returned_at
        /\ CoreOf(fold_loan) =
             [CoreOf(fold_prev) EXCEPT !.updated_at = fold_event.returned_at]
        /\ fold_event.loan_id = fold_prev.loan_id
        /\ fold_event.was_overdue =
             (fold_prev.status = "Overdue"
                \/ fold_event.returned_at > fold_prev.due_date)

\* An Active loan returned on its due date, not late
C23_Witness ==
    /\ ReturnCalled
    /\ fold_prev.status = "Active"
    /\ fold_event.type = "BookReturned"
    /\ fold_event.returned_at = fold_prev.due_date
    /\ ~fold_event.was_overdue

\* C24: return_book on a Returned loan fails with AlreadyReturned and
\* produces no event and no new state; it fails in no other case.
C24_ReturnFailsOnlyOnReturned ==
    ReturnCalled =>
        /\ (fold_event = Err("AlreadyReturned")) <=> (fold_prev.status = "Returned")
        /\ fold_prev.status = "Returned" => fold_loan = fold_prev

C24_Witness ==
    /\ ReturnCalled
    /\ fold_prev.status = "Returned"
    /\ fold_event = Err("AlreadyReturned")
    /\ fold_loan = fold_prev

\* is_overdue was asked of the loan fold_prev
OverdueAsked ==
    /\ fold_prev.status \in {"Active", "Overdue", "Returned"}
    /\ fold_event.type = "IsOverdue"

\* C25: is_overdue(loan, now) is true iff the loan is Overdue, or the loan
\* is Active and now > due date, strictly; it is false for every Returned
\* loan.
C25_IsOverdueIffLate ==
    OverdueAsked =>
        /\ fold_event.result =
             (fold_prev.status = "Overdue"
                \/ (fold_prev.status = "Active" /\ fold_event.now > fold_prev.due_date))
        /\ fold_prev.status = "Returned" => ~fold_event.result

\* An Active loan asked about on its due date
C25_Witness ==
    /\ fold_prev.status = "Active"
    /\ OverdueAsked
    /\ fold_event.now = fold_prev.due_date
    /\ ~fold_event.result
\* Every loan state in sight and every view row has extension count 0 or 1
ExtensionCountsInRange ==
    /\ \A r \in loans_view : r.extension_count \in {0, 1}
    /\ \A a \in AggregateIds :
         LET loan == replay_events(Log(a))
         IN  loan.status \in {"Active", "Overdue", "Returned"} =>
                 loan.extension_count \in {0, 1}
    /\ \A p \in Procs :
         ("loan" \in DOMAIN procs[p]
            /\ procs[p].loan.status \in {"Active", "Overdue", "Returned"}) =>
             procs[p].loan.extension_count \in {0, 1}
    /\ fold_loan.status \in {"Active", "Overdue", "Returned"} =>
         fold_loan.extension_count \in {0, 1}

\* An ExtensionCount was made from a u8
Constructed ==
    /\ fold_event # NoLoan
    /\ fold_event.type = "ExtensionCount"

\* C22: the extension count of every loan state and every view row is 0 or
\* 1; an ExtensionCount cannot be constructed from a value above 1, and
\* increment from 1 fails.
C22_ExtensionCountAtMostOne ==
    /\ ExtensionCountsInRange
    /\ Constructed => (fold_event.result.some => fold_event.result.value <= 1)
    /\ increment(1) = None
\* The due date of a loan state follows from its loaned_at and its count
DueDateFits(loan) ==
    loan.status \in {"Active", "Overdue", "Returned"} =>
        loan.due_date = loan.loaned_at + days(14) * (1 + loan.extension_count)

\* C30: for every loan state reached through create, extend, return and the
\* sweep, due date = loaned_at + 14 days x (1 + extension count).
C30_DueDateFromLoanedAt ==
    /\ DueDateFits(fold_loan)
    /\ \A a \in AggregateIds : DueDateFits(replay_events(Log(a)))
    /\ \A p \in Procs : "loan" \in DOMAIN procs[p] => DueDateFits(procs[p].loan)

\* A loan lent on day 14, extended once and then returned
C30_Witness ==
    /\ fold_loan.status = "Returned"
    /\ fold_loan.extension_count = 1
    /\ fold_loan.loaned_at = days(LOAN_PERIOD_DAYS)
    /\ fold_loan.due_date = days(3 * LOAN_PERIOD_DAYS)
\* C26: replay_events is the left fold of apply_event from no prior state:
\* none for the empty sequence, and for e1..en the result of applying
\* apply_event to e1, then e2, ... then en, each to the state before it.
C26_ReplayIsLeftFold ==
    /\ replay_events(<<>>) = NoLoan
    /\ replay_events(Log(ReplayAggregate)) = fold_loan

\* A history of three events taken through Active and Active to Returned
C26_Witness ==
    /\ Len(Log(ReplayAggregate)) >= 3
    /\ Log(ReplayAggregate)[2].type = "LoanExtended"
    /\ fold_loan.status = "Returned"
    /\ replay_events(Log(ReplayAggregate)) = fold_loan
Projected ==
    /\ fold_event # NoLoan
    /\ fold_event.type = "Projected"

ProjectedLoan == replay_events(fold_event.history)

\* The rows of loan_id in a table, and all the others
RowsFor(table, loan_id) == {r \in table : r.loan_id = loan_id}

OtherRows(table, loan_id) == {r \in table : r.loan_id # loan_id}

\* The call wrote one row for its loan and touched no other; nothing at all
\* on an empty history
WritesOneRow ==
    /\ fold_event.result = "Ok"
    /\ fold_event.history = <<>> => loans_view = fold_prev.rows
    /\ fold_event.history # <<>> =>
         /\ OtherRows(loans_view, fold_event.loan_id) =
              OtherRows(fold_prev.rows, fold_event.loan_id)
         /\ Cardinality(RowsFor(loans_view, fold_event.loan_id)) = 1
         /\ \A r \in RowsFor(loans_view, fold_event.loan_id) :
              r.status = status_label(ProjectedLoan)

\* The fields of a row are those of a loan state, its timestamps as kept by
\* keep(_)
FieldsMatch(r, loan, keep(_)) ==
    /\ r.loan_id = loan.loan_id
    /\ r.book_id = loan.book_id
    /\ r.member_id = loan.member_id
    /\ r.extension_count = loan.extension_count
    /\ r.loaned_at = keep(loan.loaned_at)
    /\ r.due_date = keep(loan.due_date)
    /\ r.returned_at = IF loan.status = "Returned"
                       THEN Some(keep(loan.returned_at)) ELSE None
    /\ r.created_at = keep(loan.created_at)
    /\ r.updated_at = keep(loan.updated_at)

Exactly(t) == t

\* C28, as stated: project_loan_events on a non-empty history writes
\* exactly one view row keyed by the loan's id, inserted or overwritten,
\* with the status of the replayed state's variant and fields equal to the
\* replayed state's fields; on an empty history it writes nothing.
C28_RowEqualsReplayedState ==
    Projected =>
        /\ WritesOneRow
        /\ \A r \in RowsFor(loans_view, fold_event.loan_id) :
             fold_event.history # <<>> => FieldsMatch(r, ProjectedLoan, Exactly)

\* C28, amended: the same, the row's timestamps being the replayed state's
\* cut to the microsecond.
C28_RowEqualsReplayedStateToMicros ==
    Projected =>
        /\ WritesOneRow
        /\ \A r \in RowsFor(loans_view, fold_event.loan_id) :
             fold_event.history # <<>> => FieldsMatch(r, ProjectedLoan, timestamptz)

\* An existing row of a loan lent between two microseconds is overwritten
\* by the projection of its history after the return
C28_Witness ==
    /\ Projected
    /\ Len(fold_event.history) > 1
    /\ ProjectedLoan.status = "Returned"
    /\ ProjectedLoan.loaned_at = 1
    /\ \E r \in RowsFor(fold_prev.rows, fold_event.loan_id) : r.status = "active"
    /\ \E r \in RowsFor(loans_view, fold_event.loan_id) :
         /\ r.status = "returned"
         /\ r.loaned_at = 0
    /\ OtherRows(loans_view, fold_event.loan_id) # {}

\* C29: projection is idempotent: projecting the same complete history a
\* second time in a row leaves the view table as the first projection left
\* it.
C29_ProjectingTwiceIsProjectingOnce ==
    (Projected /\ fold_event.again) => loans_view = fold_prev.rows

\* The second projection in a row of a history of an extended loan
C29_Witness ==
    /\ Projected
    /\ fold_event.again
    /\ ProjectedLoan.status \in {"Active", "Overdue", "Returned"}
    /\ ProjectedLoan.extension_count = 1
    /\ RowsFor(loans_view, fold_event.loan_id) # {}

\* The loan ids a command can carry
LoanIdsInCommands == 0..next_loan_id

\* C31: extend_loan and return_book for a loan id that has no events in the
\* store fail with LoanNotFound, append no event and write no view row.
C31_UnknownLoanIsNotFound ==
    [][\A p \in Procs : \A loan_id \in LoanIdsInCommands :
         ((extend_loan(p, loan_id) \/ return_book(p, loan_id))
            /\ RowsOf(events, loan_id) = {}) =>
             /\ procs'[p] = Idle("LoanNotFound", 0)
             /\ events' = events
             /\ loans_view' = loans_view]_vars

\* A command for an unknown loan was refused while other loans have events
C31_Witness ==
    /\ events # {}
    /\ \E p \in Procs : procs[p] = Idle("LoanNotFound", 0)
\* C32: extend_loan is accepted only for a loan replayed as Active with
\* extension count 0; a loan replayed as Overdue or Returned is rejected
\* with InvalidLoanState and an Active loan with count 1 with the
\* extension-limit error, and no rejection appends a LoanExtended event.
C32_ExtendAcceptedOnlyForFreshActive ==
    [][\A p \in Procs : \A loan_id \in LoanIdsInCommands :
         extend_loan(p, loan_id) =>
             LET loan == load_loan(events, loan_id)
             IN  /\ loan.status \in {"Overdue", "Returned"} =>
                      procs'[p] = Idle("InvalidLoanState", 0)
                 /\ (loan.status = "Active" /\ loan.extension_count = 1) =>
                      procs'[p] = Idle("ExtensionLimitExceeded", 0)
                 /\ procs'[p].pc # "idle" =>
                      /\ loan.status = "Active"
                      /\ loan.extension_count = 0
                      /\ procs'[p].events[1].type = "LoanExtended"
                 /\ events' = events]_vars

\* An extension was refused for a loan that is Overdue in the store
C32_Witness ==
    \E p \in Procs :
        /\ procs[p] = Idle("InvalidLoanState", 0)
        /\ \E a \in AggregateIds : load_loan(events, a).status = "Overdue"
\* C33: the Extended transition of the fold is guarded by extension < 1:
\* apply_event on an Active loan whose extension count is already 1 and a
\* LoanExtended event yields no further extended Active loan, and
\* replay_events accepts no history with two LoanExtended events.
C33_FoldRefusesSecondExtension ==
    /\ (fold_prev.status = "Active" /\ fold_prev.extension_count = 1
          /\ fold_event.type = "LoanExtended") => fold_loan = Panic
    /\ CountOf(Log(ReplayAggregate), "LoanExtended") >= 2 =>
         replay_events(Log(ReplayAggregate)) = Panic
\* The loan state the i-th event of a log is applied to during replay
StateBefore(log, i) == replay_events(SubSeq(log, 1, i - 1))

\* C34: a loan is Overdue only if it is really past due: each
\* LoanBecameOverdue event in a loan's log has detected_at > the due date of
\* the loan state it is applied to during replay, and its due_date field
\* equals that due date.
C34_OverdueOnlyWhenPastDue ==
    \A a \in AggregateIds :
        \A i \in 1..Len(Log(a)) :
            (Log(a)[i].type = "LoanBecameOverdue"
               /\ StateBefore(Log(a), i).status \in {"Active", "Overdue", "Returned"}) =>
                /\ Log(a)[i].detected_at > StateBefore(Log(a), i).due_date
                /\ Log(a)[i].due_date = StateBefore(Log(a), i).due_date
\* C35: every view row written by the projector, the command handlers or
\* the sweep has a status that is active, overdue or returned, and has
\* returned_at present iff its status is returned.
C35_ViewRowsWellFormed ==
    \A r \in loans_view :
        /\ r.status \in {"active", "overdue", "returned"}
        /\ r.returned_at.some <=> r.status = "returned"

\* A row of a returned loan beside what the handlers wrote before
C35_Witness ==
    \E r \in loans_view :
        /\ r.status = "returned"
        /\ r.returned_at.some
        /\ r.updated_at = r.returned_at.value
        /\ now > 0
\* A command function succeeded on fold_prev and returned fold_loan and
\* fold_event
CommandSucceeded ==
    /\ fold_event # NoLoan
    /\ fold_event.type \in {"BookLoaned", "LoanExtended", "BookReturned"}

\* C36: commands and the fold agree: when create, extend or return_book
\* succeeds with (s', e), apply_event applied to the prior state (none for
\* create) and e is s'; so the replay of the events the commands emitted is
\* the state the last command returned.
C36_CommandsAgreeWithFold ==
    CommandSucceeded =>
        /\ apply_event(fold_prev, fold_event) = fold_loan
        /\ replay_events(Log(fold_loan.loan_id)) = fold_loan

\* A loan created, extended and returned: three events in the log
C36_Witness ==
    /\ CommandSucceeded
    /\ fold_event.type = "BookReturned"
    /\ fold_event.returned_at > fold_loan.loaned_at
    /\ fold_loan.extension_count = 1
    /\ Len(Log(fold_loan.loan_id)) = 3
    /\ replay_events(Log(fold_loan.loan_id)) = fold_loan
\* C37: every view write carries the complete reconstructed state: with no
\* interleaving and no fault, the view row loan_book, extend_loan,
\* return_book or detect_overdue_loans saves is the row project_loan_events
\* would write from the loan's event log as it is after the operation's
\* append.
C37_SavedRowIsTheProjection ==
    [][\A p \in SeqProcs :
         Save(p) =>
             loans_view' =
                 project_loan_events(loans_view, Log(procs[p].aggregate_id)).table]_vars

\* The sweep has saved the row of a loan that was extended before
C37_Witness ==
    /\ procs["p1"].pc = "idle"
    /\ \E r \in loans_view :
         /\ r.status = "overdue"
         /\ r.extension_count = 1
         /\ loans_view = project_loan_events(loans_view, Log(r.loan_id)).table
\* apply_event accepted fold_event on the existing loan fold_prev
AcceptedOnLoan ==
    /\ fold_prev.status \in {"Active", "Overdue"}
    /\ fold_loan # Panic

\* The core of a loan state with the given fields taken from another
WithFieldsOf(loan, other, fields) ==
    [f \in DOMAIN CoreOf(loan) |->
        IF f \in fields THEN CoreOf(other)[f] ELSE CoreOf(loan)[f]]

\* C38: events after creation change only the fields they own: loan id,
\* book id, member id, loaned_at, created_by and created_at never change;
\* LoanExtended changes only due date, extension count and updated_at;
\* LoanBecameOverdue only the variant and updated_at; BookReturned only the
\* variant, returned_at and updated_at.
C38_EventsChangeOnlyTheirFields ==
    AcceptedOnLoan =>
        /\ \A f \in {"loan_id", "book_id", "member_id", "loaned_at",
                      "created_by", "created_at"} : fold_loan[f] = fold_prev[f]
        /\ fold_event.type = "LoanExtended" =>
             /\ fold_loan.status = fold_prev.status
             /\ WithFieldsOf(fold_loan, fold_prev,
                             {"due_date", "extension_count", "updated_at"})
                  = CoreOf(fold_prev)
        /\ fold_event.type = "LoanBecameOverdue" =>
             WithFieldsOf(fold_loan, fold_prev, {"updated_at"}) = CoreOf(fold_prev)
        /\ fold_event.type = "BookReturned" =>
             WithFieldsOf(fold_loan, fold_prev, {"updated_at"}) = CoreOf(fold_prev)

\* An extension accepted at a time after the loan was made
C38_Witness ==
    /\ AcceptedOnLoan
    /\ fold_event.type = "LoanExtended"
    /\ fold_event.extended_at > fold_prev.loaned_at
    /\ fold_loan.updated_at = fold_event.extended_at
    /\ fold_loan.loaned_at = fold_prev.loaned_at
\* The task p stores events or a view row of loan b in this step
WritesFor(p, b) ==
    /\ procs[p].pc \in {"append_commit", "save"}
    /\ procs[p].aggregate_id = b
    /\ procs'[p] # procs[p]

\* C39: operations on one aggregate do not touch another: whatever the
\* interleaving, the event rows (events and versions) and the view row of a
\* loan change only in a step of an append or a save made for that loan.
C39_OtherAggregatesUntouched ==
    [][\A b \in LoanIdsInCommands :
         (RowsOf(events', b) # RowsOf(events, b)
            \/ RowsFor(loans_view', b) # RowsFor(loans_view, b)) =>
             \E p \in Procs : WritesFor(p, b)]_vars

\* Two loans with events and view rows, one returned while the other stays
\* Active
C39_Witness ==
    \E a \in AggregateIds, b \in AggregateIds :
        /\ load_loan(events, a).status = "Returned"
        /\ load_loan(events, b).status = "Active"
        /\ \E r \in RowsFor(loans_view, a) : r.status = "returned"
        /\ \E r \in RowsFor(loans_view, b) : r.status = "active"
\* The loan has been created by loan_book; it has been returned; it has been
\* transitioned to Overdue
Created(a) == \E i \in 1..Len(Log(a)) : Log(a)[i].type = "BookLoaned"

Returned(a) == \E i \in 1..Len(Log(a)) : Log(a)[i].type = "BookReturned"

TransitionedToOverdue(a) ==
    /\ CountOf(Log(a), "LoanBecameOverdue") = 1
    /\ \E r \in RowsFor(loans_view, a) : r.status = "overdue"

\* The clock of the model ends before the loan is past due
DueAfterTheClock(a) ==
    \E i \in 1..Len(Log(a)) :
        \/ Log(a)[i].type = "BookLoaned" /\ Log(a)[i].due_date >= days(MaxNow)
        \/ Log(a)[i].type = "LoanExtended" /\ Log(a)[i].new_due_date >= days(MaxNow)

\* C40: overdue detection is live: with no infrastructure fault and sweeps
\* that keep being run, every loan created by loan_book and not returned is
\* eventually transitioned to Overdue: one LoanBecameOverdue in its log and
\* view status overdue.
C40_EveryDueLoanBecomesOverdue ==
    \A a \in 1..MaxOps :
        <>Created(a) => <>(TransitionedToOverdue(a) \/ Returned(a) \/ DueAfterTheClock(a))
====
